---------------------------- MODULE Spec2Model ----------------------------
(* kube-ecr-refresher: the Amazon ECR authentication data refresher        *)
(* (internal/refresher/refresher.go) and the cycle driver that projects     *)
(* the current authentication data into one secret per target namespace    *)
(* (main.go).  Time is counted in minutes.                                  *)
EXTENDS Integers, Sequences, FiniteSets, TLC

VARIABLES
    now,         \* wall clock, in minutes
    current,     \* AmazonECRAuthenticationDataRefresher.current (Nil = nil pointer)
    rpc,         \* position of the Run goroutine: "inflight" | "sleep"
    wakeAt,      \* the instant u the Run goroutine sleeps until
    lastResult,  \* outcome of the last finished refresh(): "none" | "ok" | "err"
    mpc,         \* position of main
    seen,        \* the value Get read at its nil check (refresher.go:55)
    d,           \* the value createOrUpdateSecrets got from r.Get()
    getErr,      \* whether the Get of the running/last cycle returned an error
    l,           \* the namespace list of the running/last cycle
    listCalls,   \* Namespaces().List calls issued by the running/last cycle
    listErr,     \* whether buildNamespacesList failed in the running/last cycle
    nCycles,     \* number of createOrUpdateSecrets invocations so far
    tasks,       \* the goroutines spawned by createOrUpdateSecrets
    store,       \* the cluster's secrets: namespace -> secret name -> object
    ticker,      \* whether the ticker has been created (main.go:135)
    tickPending, \* whether a tick is waiting in t.C
    sigPending,  \* whether SIGINT/SIGTERM is waiting in c
    selector,    \* the --target-namespaces flag
    obs          \* what an observer of one component has recorded of it

vars == <<now, current, rpc, wakeAt, lastResult, mpc, seen, d,
          getErr, l, listCalls, listErr, nCycles, tasks, store, ticker,
          tickPending, sigPending, selector, obs>>

refresherVars == <<current, rpc, wakeAt, lastResult>>
cycleVars == <<seen, d, getErr, l, listCalls, listErr, nCycles>>

-----------------------------------------------------------------------------
(* Bounds of the model *)

MaxTime == 2
MaxCycles == 2

(* Program constants *)

Margin == 1
Backoff == 1

Nil == [nil |-> TRUE]

-----------------------------------------------------------------------------
(* Strings are sequences of characters. *)

RECURSIVE SplitFrom(_, _, _)
SplitFrom(s, sep, acc) ==
    IF s = <<>> THEN <<acc>>
    ELSE IF Head(s) = sep THEN <<acc>> \o SplitFrom(Tail(s), sep, <<>>)
    ELSE SplitFrom(Tail(s), sep, Append(acc, Head(s)))

SplitAtFirst(s, sep) ==
    IF \E i \in 1..Len(s) : s[i] = sep
    THEN LET k == CHOOSE i \in 1..Len(s) :
                     s[i] = sep /\ \A j \in 1..(i - 1) : s[j] # sep
         IN  <<SubSeq(s, 1, k - 1), SubSeq(s, k + 1, Len(s))>>
    ELSE <<s>>

\* strings.Split(s, sep) for a one-character separator
Split(s, sep) == SplitFrom(s, sep, <<>>)

\* strings.TrimPrefix(s, p)
TrimPrefix(s, p) ==
    IF Len(s) >= Len(p) /\ SubSeq(s, 1, Len(p)) = p
    THEN SubSeq(s, Len(p) + 1, Len(s))
    ELSE s

\* The code book of the base64 model: one encoded unit per character.
B64Units == {"QQ", "Og", "cw", "dA"}
B64DecodeUnit(u) ==
    CASE u = "QQ" -> "A"
      [] u = "Og" -> ":"
      [] u = "cw" -> "s"
      [] u = "dA" -> "t"

B64EncodeChar(c) ==
    CASE c = "A" -> "QQ"
      [] c = ":" -> "Og"
      [] c = "s" -> "cw"
      [] c = "t" -> "dA"

\* base64.StdEncoding.DecodeString: Nil stands for the decoding error
B64Decode(tok) ==
    IF \E i \in 1..Len(tok) : tok[i] \notin B64Units
    THEN Nil
    ELSE [i \in 1..Len(tok) |-> B64DecodeUnit(tok[i])]

B64Encode(s) == [i \in 1..Len(s) |-> B64EncodeChar(s[i])]

-----------------------------------------------------------------------------
(* The Token Source (ecr.GetAuthorizationToken) *)

Scheme == <<"https://">>
Host == <<"h1">>
Endpoints == {Scheme \o Host}
\* Lifetimes of the tokens handed out, in minutes: longer than Margin
Lives == {2}

Tokens == { <<"QQ", "Og", "cw">>,                \* "A:s"
            <<"QQ", "Og", "dA">>,                \* "A:t"
            <<"QQ", "cw">>,                      \* "As"
            <<"QQ", "Og", "cw", "Og", "dA">>,    \* "A:s:t"
            <<"QQ", "!!">> }                     \* not base64

AuthorizationDatum(t) ==
    { [AuthorizationToken |-> tok, ProxyEndpoint |-> e, ExpiresAt |-> t + life] :
        tok \in Tokens, e \in Endpoints, life \in Lives }

\* What a GetAuthorizationToken call answering at time t can return.
TokenSourceOutputs(t) ==
    { [err |-> TRUE, AuthorizationData |-> <<>>] }
    \cup { [err |-> FALSE, AuthorizationData |-> <<>>] }
    \cup { [err |-> FALSE, AuthorizationData |-> <<a>>] : a \in AuthorizationDatum(t) }
    \cup { [err |-> FALSE, AuthorizationData |-> <<a, a>>] :
             a \in { x \in AuthorizationDatum(t) :
                       x.AuthorizationToken = <<"QQ", "Og", "cw">> /\ x.ExpiresAt = t + 2 } }


-----------------------------------------------------------------------------
(* internal/refresher/refresher.go *)

SingleResultOrMore(n) == n >= 1

\* refresh(): len(o.AuthorizationData) != 1 is an error
SingleResult(n) == n = 1

\* refresh(): the authentication data, or the error, for one answer o of the
\* Token Source.
refresh(o) ==
    IF o.err THEN [err |-> "transport", d |-> Nil]
    ELSE IF ~SingleResult(Len(o.AuthorizationData)) THEN [err |-> "count", d |-> Nil]
    ELSE LET a == o.AuthorizationData[1]
             e == a.ExpiresAt
             s == TrimPrefix(a.ProxyEndpoint, Scheme)
             v == B64Decode(a.AuthorizationToken)
         IN  IF v = Nil THEN [err |-> "decode", d |-> Nil]
             ELSE LET t == Split(v, ":")
                  IN  IF Len(t) # 2 THEN [err |-> "malformed", d |-> Nil]
                      ELSE [err |-> "ok",
                            d |-> [expiration |-> e, Server |-> s,
                                   Password |-> t[2], Username |-> t[1]]]

\* Get, its nil check: whether the value read is returned with a nil error
GetReadyAlways(c) == TRUE

GetReady(c) == c # Nil

SlotAfterFailureKeep(cur) == cur

\* Run, on a failed refresh: r.current = nil
SlotAfterFailure(cur) == Nil

\* The process runs until main returns or a goroutine panics.
Running == mpc \notin {"exited", "panic"}

\* Run, on a failed refresh at time t: u := time.Now().Add(1 * time.Minute)
HoldUntilAfterFailure(t) == t + Backoff

HoldUntilExpiration(c) == c.expiration

\* Run, on a successful refresh: u := d.expiration.Add(-1 * time.Minute)
HoldUntilAfterSuccess(c) == c.expiration - Margin

\* Run: what one answer o of the Token Source does to the refresher
RefreshAnswer(o) ==
    LET r == refresh(o) IN
    IF r.err # "ok"
    THEN /\ current' = SlotAfterFailure(current)
         /\ wakeAt' = HoldUntilAfterFailure(now)
         /\ lastResult' = "err"
    ELSE /\ current' = r.d
         /\ wakeAt' = HoldUntilAfterSuccess(r.d)
         /\ lastResult' = "ok"

\* Run: the GetAuthorizationToken call answers, refresh() returns, the slot
\* is written and the sleep until u begins.
RefreshReturn ==
    /\ Running
    /\ rpc = "inflight"
    /\ \E o \in TokenSourceOutputs(now) : RefreshAnswer(o)
    /\ rpc' = "sleep"
    /\ UNCHANGED <<now, mpc, cycleVars, tasks, store, ticker,
                   tickPending, sigPending, selector, obs>>

\* time.Sleep(time.Until(u)) is over: at once when u is not in the future
SleepOver == rpc = "sleep" /\ now >= wakeAt

\* Run: time.Sleep(time.Until(u)) returns and the next iteration issues the
\* next GetAuthorizationToken call.
Wake ==
    /\ Running
    /\ SleepOver
    /\ rpc' = "inflight"
    /\ UNCHANGED <<now, current, wakeAt, lastResult, mpc, cycleVars,
                   tasks, store, ticker, tickPending, sigPending, selector, obs>>

\* A minute passes.  A sleeper whose instant has come wakes before the clock
\* moves on; a call in flight takes as long as it takes.
Tick ==
    /\ Running
    /\ now < MaxTime
    /\ ~SleepOver
    /\ now' = now + 1
    /\ UNCHANGED <<refresherVars, mpc, cycleVars, tasks, store, ticker,
                   tickPending, sigPending, selector, obs>>

-----------------------------------------------------------------------------
(* The cluster *)

NsA == <<"a">>
NsB == <<"b">>
Cluster == {NsA, NsB}
OtherName == <<"x">>
SecretNames == {TrimPrefix(e, Scheme) : e \in Endpoints} \cup {OtherName}

\* The .dockercfg payload generated for the authentication data c
\* (SecretForDockerRegistryGeneratorV1.StructuredGenerate).
DockerCfg(c) ==
    [server   |-> c.Server,
     username |-> c.Username,
     password |-> c.Password,
     email    |-> "none",
     auth     |-> B64Encode(c.Username \o <<":">> \o c.Password)]

OldData ==
    [server |-> Host, username |-> <<"A">>, password |-> <<"o">>,
     email |-> "none", auth |-> <<"QQ", "Og", "bw">>]

SecretForFixedName(c) ==
    [Name |-> OtherName, Namespace |-> <<>>, Uid |-> "", Data |-> DockerCfg(c)]

SecretForStalePayload(c) ==
    [Name |-> c.Server, Namespace |-> <<>>, Uid |-> "", Data |-> OldData]

\* The Secret object createOrUpdateSecret builds from c
SecretFor(c) ==
    [Name |-> c.Server, Namespace |-> <<>>, Uid |-> "", Data |-> DockerCfg(c)]

\* A secret somebody created before the program started
PreExisting(ns, name) ==
    [Name |-> name, Namespace |-> ns, Uid |-> "u0", Data |-> OldData]

\* What the API server stores for a Create of object s in namespace ns
Created(ns, s) == [s EXCEPT !.Namespace = ns, !.Uid = "u1"]

InitStores ==
    { [ns \in Cluster |->
         [name \in SecretNames |->
            IF name = OtherName THEN PreExisting(ns, name)
            ELSE IF ns \in have THEN PreExisting(ns, name) ELSE Nil]] :
      have \in {{NsA}} }

Selectors == { <<>>, <<"a", ",", "z">> }
NamespaceAll == <<>>


-----------------------------------------------------------------------------
(* main.go: the cycle driver *)

NoCalls == [create |-> 0, get |-> 0, update |-> 0]

NewTaskReadingSlot(i, cyc, ns, c) ==
    [idx |-> i, cyc |-> cyc, ns |-> ns, d |-> current, pc |-> "create",
     fetched |-> Nil, upd |-> Nil, calls |-> NoCalls, keys |-> {},
     res |-> "none", failed |-> "none"]

\* The goroutine createOrUpdateSecrets spawns for l[i], with the d it captures;
\* keys collects the (namespace, name) pairs its store calls address
NewTask(i, cyc, ns, c) ==
    [idx |-> i, cyc |-> cyc, ns |-> ns, d |-> c, pc |-> "create",
     fetched |-> Nil, upd |-> Nil, calls |-> NoCalls, keys |-> {},
     res |-> "none", failed |-> "none"]

Live(ts) == {t \in ts : t.pc # "done"}

\* The state of a createOrUpdateSecrets invocation as it begins
BeginCycle ==
    /\ mpc' = "cycle"
    /\ nCycles' = nCycles + 1
    /\ seen' = Nil
    /\ d' = Nil
    /\ getErr' = FALSE
    /\ l' = <<>>
    /\ listCalls' = 0
    /\ listErr' = FALSE
    /\ tasks' = Live(tasks)

\* main, the wait for the first authentication data: one r.Get() of the
\* polling loop; on success the signal handler and the ticker are set up
\* and the first createOrUpdateSecrets is called.
StartupGet ==
    /\ mpc = "wait"
    /\ IF GetReady(current)
       THEN /\ BeginCycle
            /\ ticker' = TRUE
       ELSE UNCHANGED <<mpc, cycleVars, tasks, ticker>>
    /\ UNCHANGED <<now, refresherVars, store, tickPending, sigPending, selector, obs>>

\* The ticker delivers a tick into t.C (a channel of capacity one).
TickerFire ==
    /\ Running
    /\ ticker
    /\ ~tickPending
    /\ tickPending' = TRUE
    /\ UNCHANGED <<now, refresherVars, mpc, cycleVars, tasks, store, ticker,
                   sigPending, selector, obs>>

\* SIGINT or SIGTERM is delivered into c.
Signal ==
    /\ Running
    /\ ticker
    /\ ~sigPending
    /\ sigPending' = TRUE
    /\ UNCHANGED <<now, refresherVars, mpc, cycleVars, tasks, store, ticker,
                   tickPending, selector, obs>>

\* main, select: case <-t.C
IdleTick ==
    /\ mpc = "idle"
    /\ tickPending
    /\ nCycles < MaxCycles
    /\ tickPending' = FALSE
    /\ BeginCycle
    /\ UNCHANGED <<now, refresherVars, store, ticker, sigPending, selector, obs>>

\* main, select: case <-c
IdleSignal ==
    /\ mpc = "idle"
    /\ sigPending
    /\ mpc' = "exited"
    /\ UNCHANGED <<now, refresherVars, cycleVars, tasks, store, ticker,
                   tickPending, sigPending, selector, obs>>

OnGetErrorGoOn == "getret"

\* createOrUpdateSecrets, where it goes when r.Get() returned an error: it
\* logs and returns to main's select
OnGetError == "idle"

\* createOrUpdateSecrets, r.Get(): the nil check of the slot.  A nil slot
\* is the error that ends the cycle.
CycleGetCheck ==
    /\ mpc = "cycle"
    /\ seen' = current
    /\ IF GetReady(current)
       THEN /\ mpc' = "getret"
            /\ getErr' = FALSE
       ELSE /\ mpc' = OnGetError
            /\ getErr' = TRUE
    /\ UNCHANGED <<now, refresherVars, d, l, listCalls, listErr, nCycles, tasks,
                   store, ticker, tickPending, sigPending, selector, obs>>

\* createOrUpdateSecrets, r.Get(): return r.current, nil.  The field is
\* read without synchronisation a second time: the build may reuse the
\* value of the nil check or load the field again.
CycleGetReturn ==
    /\ mpc = "getret"
    /\ d' \in {seen, current}
    /\ seen' = Nil
    /\ mpc' = "list"
    /\ UNCHANGED <<now, refresherVars, getErr, l, listCalls, listErr,
                   nCycles, tasks, store, ticker, tickPending, sigPending,
                   selector, obs>>

\* buildNamespacesList for a selector that is not "all"
SplitSelectorFields(sel) == SelectSeq(Split(sel, ","), LAMBDA p : p # <<>>)

SplitSelector(sel) == Split(sel, ",")

\* buildNamespacesList, the names of the listed namespaces
ListedNames == <<NsA, NsB>>

\* createOrUpdateSecrets, the fan-out: one goroutine per entry of the list
Spawn(ts, list, cyc, c) ==
    Live(ts) \cup {NewTask(i, cyc, list[i], c) : i \in 1..Len(list)}

\* buildNamespacesList(k, sel): the names returned, the number of
\* Namespaces().List calls issued and whether an error is returned; fail
\* tells whether the List call, if one is issued, fails.
buildNamespacesList(sel, fail) ==
    IF sel # NamespaceAll
    THEN [names |-> SplitSelector(sel), calls |-> 0, err |-> FALSE]
    ELSE IF fail
    THEN [names |-> <<>>, calls |-> 1, err |-> TRUE]
    ELSE [names |-> ListedNames, calls |-> 1, err |-> FALSE]

OnListErrorGoOn == "join"

\* createOrUpdateSecrets, where it goes when buildNamespacesList returned an
\* error: it logs and returns to main's select
OnListError == "idle"

\* createOrUpdateSecrets: buildNamespacesList, then the fan-out
ListAndSpawn ==
    /\ mpc = "list"
    /\ \E fail \in BOOLEAN :
         LET r == buildNamespacesList(selector, fail) IN
         /\ l' = r.names
         /\ listCalls' = listCalls + r.calls
         /\ listErr' = r.err
         /\ IF r.err
            THEN /\ tasks' = tasks
                 /\ mpc' = OnListError
            ELSE /\ tasks' = Spawn(tasks, l', nCycles, d)
                 /\ mpc' = "join"
    /\ UNCHANGED <<now, refresherVars, seen, d, getErr, nCycles, store, ticker,
                   tickPending, sigPending, selector, obs>>

JoinReadyNoWait(ts) == TRUE

\* w.Wait(): every goroutine of the fan-out has called w.Done()
JoinReady(ts) == \A t \in ts : t.pc = "done"

\* createOrUpdateSecrets returns to main's select
Join ==
    /\ mpc = "join"
    /\ JoinReady(tasks)
    /\ mpc' = "idle"
    /\ UNCHANGED <<now, refresherVars, cycleVars, tasks, store, ticker,
                   tickPending, sigPending, selector, obs>>


-----------------------------------------------------------------------------
(* main.go: the goroutine of one namespace *)

FinishTaskCancelSiblings(ts, t, nt, res) ==
    IF res = "err"
    THEN {[x EXCEPT !.pc = "done"] : x \in ts \ {t}}
           \cup {[nt EXCEPT !.pc = "done", !.res = res]}
    ELSE (ts \ {t}) \cup {[nt EXCEPT !.pc = "done", !.res = res]}

\* The goroutine of task t ends (defer w.Done()): nt is t as its last call
\* left it, res is "err" when createOrUpdateSecret returned an error, which
\* is logged, and "ok" when it returned nil.
FinishTask(ts, t, nt, res) ==
    (ts \ {t}) \cup {[nt EXCEPT !.pc = "done", !.res = res]}

\* createOrUpdateSecret, what is returned for a Create error that is not
\* "already exists": return nil
CreateErrorReturn == "ok"

GetErrorReturnNil == "ok"

\* updateSecret, what is returned when the Get call failed: return err
GetErrorReturn == "err"

PayloadEqualNever(a, b) == FALSE

\* updateSecret: reflect.DeepEqual(v.Data, s.Data)
PayloadEqual(a, b) == a = b

UpdateObjectGenerated(v, s) == s

\* updateSecret: v.Data = s.Data; the object handed to Update
UpdateObject(v, s) == [v EXCEPT !.Data = s.Data]

\* createOrUpdateSecret up to the Create call and what follows it.  A nil d
\* is dereferenced when the Secret is generated: the goroutine panics and
\* the process dies.
TaskCreate(t) ==
    /\ Running
    /\ t.pc = "create"
    /\ IF t.d = Nil
       THEN /\ mpc' = "panic"
            /\ UNCHANGED <<tasks, store>>
       ELSE LET s  == SecretFor(t.d)
                nt == [t EXCEPT !.calls.create = @ + 1,
                                !.keys = @ \cup {<<t.ns, s.Name>>}]
            IN  /\ mpc' = mpc
                /\ \E fail \in BOOLEAN :
                     IF fail \/ t.ns \notin Cluster
                     THEN /\ tasks' = FinishTask(tasks, t,
                                        [nt EXCEPT !.failed = "create"],
                                        CreateErrorReturn)
                          /\ store' = store
                     ELSE IF store[t.ns][s.Name] # Nil
                     THEN /\ tasks' = (tasks \ {t}) \cup {[nt EXCEPT !.pc = "get"]}
                          /\ store' = store
                     ELSE /\ tasks' = FinishTask(tasks, t, nt, "ok")
                          /\ store' = [store EXCEPT
                                         ![t.ns][s.Name] = Created(t.ns, s)]
    /\ UNCHANGED <<now, refresherVars, cycleVars, ticker, tickPending,
                   sigPending, selector, obs>>

\* updateSecret: the Get call and the comparison of the payloads
TaskGet(t) ==
    /\ Running
    /\ t.pc = "get"
    /\ LET s  == SecretFor(t.d)
           nt == [t EXCEPT !.calls.get = @ + 1,
                           !.keys = @ \cup {<<t.ns, s.Name>>}]
           v  == store[t.ns][s.Name]
       IN  \E fail \in BOOLEAN :
             IF fail \/ v = Nil
             THEN tasks' = FinishTask(tasks, t, [nt EXCEPT !.failed = "get"],
                                      GetErrorReturn)
             ELSE IF PayloadEqual(v.Data, s.Data)
             THEN tasks' = FinishTask(tasks, t, [nt EXCEPT !.fetched = v], "ok")
             ELSE tasks' = (tasks \ {t}) \cup
                             {[nt EXCEPT !.fetched = v, !.pc = "update",
                                         !.upd = UpdateObject(v, s)]}
    /\ UNCHANGED <<now, refresherVars, mpc, cycleVars, store, ticker,
                   tickPending, sigPending, selector, obs>>

\* updateSecret: the Update call
TaskUpdate(t) ==
    /\ Running
    /\ t.pc = "update"
    /\ LET nt == [t EXCEPT !.calls.update = @ + 1,
                           !.keys = @ \cup {<<t.upd.Namespace, t.upd.Name>>}]
       IN  \E fail \in BOOLEAN :
             IF fail
             THEN /\ tasks' = FinishTask(tasks, t,
                                [nt EXCEPT !.failed = "update"], "err")
                  /\ store' = store
             ELSE /\ tasks' = FinishTask(tasks, t, nt, "ok")
                  /\ store' = [store EXCEPT ![t.upd.Namespace][t.upd.Name] = t.upd]
    /\ UNCHANGED <<now, refresherVars, mpc, cycleVars, ticker, tickPending,
                   sigPending, selector, obs>>

-----------------------------------------------------------------------------

\* Nothing observed yet
NoObs == [answer |-> Nil, outcome |-> "none", before |-> Nil, retAt |-> 0,
          calls |-> 1, rets |-> 0, list |-> Nil]

\* The process as main starts, but for the flags
StartOfMain ==
    /\ now = 0
    /\ current = Nil
    /\ rpc = "inflight"
    /\ wakeAt = 0
    /\ lastResult = "none"
    /\ mpc = "wait"
    /\ seen = Nil
    /\ d = Nil
    /\ getErr = FALSE
    /\ l = <<>>
    /\ listCalls = 0
    /\ listErr = FALSE
    /\ nCycles = 0
    /\ tasks = {}
    /\ store \in InitStores
    /\ ticker = FALSE
    /\ tickPending = FALSE
    /\ sigPending = FALSE
    /\ obs = NoObs

Init ==
    /\ StartOfMain
    /\ selector \in Selectors

Next ==
    \/ RefreshReturn
    \/ Wake
    \/ Tick
    \/ StartupGet
    \/ TickerFire
    \/ Signal
    \/ IdleTick
    \/ IdleSignal
    \/ CycleGetCheck
    \/ CycleGetReturn
    \/ ListAndSpawn
    \/ Join
    \/ \E t \in tasks : TaskCreate(t)
    \/ \E t \in tasks : TaskGet(t)
    \/ \E t \in tasks : TaskUpdate(t)

Spec == Init /\ [][Next]_vars

\* The scheduling the liveness of the driver rests on: a call of the driver or
\* of a goroutine that can return does return, w.Wait() returns once every
\* goroutine is done, and a select that finds a signal in c again and again
\* takes it at last.
FairSpec ==
    /\ Spec
    /\ WF_vars(CycleGetCheck)
    /\ WF_vars(CycleGetReturn)
    /\ WF_vars(ListAndSpawn)
    /\ WF_vars(Join)
    /\ WF_vars(\E t \in tasks : TaskCreate(t))
    /\ WF_vars(\E t \in tasks : TaskGet(t))
    /\ WF_vars(\E t \in tasks : TaskUpdate(t))
    /\ SF_vars(IdleSignal)

-----------------------------------------------------------------------------
(* buildNamespacesList on its own, over every value of --target-namespaces of
   at most MaxSelLen characters of SelChars *)

MaxSelLen == 4
SelChars == {"a", " ", ","}

RECURSIVE StringsUpTo(_)
StringsUpTo(n) ==
    IF n = 0 THEN { <<>> }
    ELSE LET shorter == StringsUpTo(n - 1) IN
         shorter \cup { Append(s, c) : s \in {x \in shorter : Len(x) = n - 1},
                                       c \in SelChars }

InitList ==
    /\ StartOfMain
    /\ selector \in StringsUpTo(MaxSelLen)

\* One call of buildNamespacesList(k, selector); what it returned is recorded
ListTargets ==
    /\ obs.list = Nil
    /\ \E fail \in BOOLEAN :
         obs' = [obs EXCEPT !.list = buildNamespacesList(selector, fail)]
    /\ UNCHANGED <<now, refresherVars, mpc, cycleVars, tasks, store, ticker,
                   tickPending, sigPending, selector>>

NextList == ListTargets

SpecList == InitList /\ [][NextList]_vars

-----------------------------------------------------------------------------
(* The refresher on its own: Run against a Token Source that may answer
   anything, main still waiting.  obs records the last answer, the outcome of
   refresh() on it, the slot before it, the time it was handled, and counts
   the calls issued and the answers handled. *)

MaxCalls == 3

AnyLives == {0, 1, 2}

AnyTokens == Tokens \cup { <<"Og", "cw">>,              \* ":s"
                           <<"QQ", "Og">>,              \* "A:"
                           <<"Og", "Og">> }             \* "::"

AnyAuthorizationDatum(t) ==
    { [AuthorizationToken |-> tok, ProxyEndpoint |-> e, ExpiresAt |-> t + life] :
        tok \in AnyTokens, e \in Endpoints, life \in AnyLives }

\* What a GetAuthorizationToken call answering at time t may return at all:
\* an error, or zero, one or two records
AnyTokenSourceOutputs(t) ==
    { [err |-> TRUE, AuthorizationData |-> <<>>] }
    \cup { [err |-> FALSE, AuthorizationData |-> <<>>] }
    \cup { [err |-> FALSE, AuthorizationData |-> <<a>>] :
             a \in AnyAuthorizationDatum(t) }
    \cup { [err |-> FALSE, AuthorizationData |-> <<a, a>>] :
             a \in { x \in AnyAuthorizationDatum(t) :
                       x.AuthorizationToken = <<"QQ", "Og", "cw">> } }

InitR ==
    /\ StartOfMain
    /\ selector = NamespaceAll

\* Run: one answer of the Token Source is handled (as RefreshReturn)
RunReturnObserved ==
    /\ rpc = "inflight"
    /\ \E o \in AnyTokenSourceOutputs(now) :
         /\ RefreshAnswer(o)
         /\ obs' = [obs EXCEPT !.answer = o, !.outcome = refresh(o).err,
                               !.before = current, !.retAt = now,
                               !.rets = @ + 1]
    /\ rpc' = "sleep"
    /\ UNCHANGED <<now, mpc, cycleVars, tasks, store, ticker,
                   tickPending, sigPending, selector>>

\* Run: the sleep is over and the next call is issued (as Wake)
RunWakeObserved ==
    /\ SleepOver
    /\ obs.calls < MaxCalls
    /\ rpc' = "inflight"
    /\ obs' = [obs EXCEPT !.calls = @ + 1]
    /\ UNCHANGED <<now, current, wakeAt, lastResult, mpc, cycleVars,
                   tasks, store, ticker, tickPending, sigPending, selector>>

NextR ==
    \/ RunReturnObserved
    \/ RunWakeObserved
    \/ Tick

SpecR == InitR /\ [][NextR]_vars


-----------------------------------------------------------------------------
(* Properties *)

Done(ts) == {t \in ts : t.pc = "done"}

\* C1: a cycle whose Get reported that no authentication data is held has
\* returned to main, and it listed no namespaces, spawned no goroutine and issued no
\* create, get or update call.
NotReadyCycleIssuesNoCall ==
    getErr =>
        /\ mpc \in {"idle", "exited"}
        /\ listCalls = 0
        /\ l = <<>>
        /\ d = Nil
        /\ tasks = {}

NotReadyCycleHappened ==
    /\ getErr
    /\ mpc = "idle"
    /\ nCycles >= 1
    /\ store \in InitStores

\* C2: after a failed refresh the slot is empty until the next successful
\* refresh, a Get called then reports not-ready, and the slot changes only
\* when a refresh returns: to a credential on success, to empty on failure.
SlotClearedByFailure ==
    /\ [](lastResult = "err" => current = Nil)
    /\ [][(mpc = "cycle" /\ mpc' # "cycle" /\ lastResult = "err")
            => (getErr' /\ mpc' = "idle" /\ d' = Nil)]_vars
    /\ [][current' # current =>
            /\ rpc = "inflight"
            /\ rpc' = "sleep"
            /\ \/ lastResult' = "ok" /\ current' # Nil
               \/ lastResult' = "err" /\ current' = Nil]_vars

CredentialLostByFailure ==
    /\ ticker
    /\ lastResult = "err"
    /\ current = Nil
    /\ rpc = "sleep"

\* C3: whenever the slot holds a credential, the current time is strictly
\* before its expiration.
SlotCredentialValid ==
    current # Nil => now < current.expiration

\* C4: goroutines of the fan-out run only while createOrUpdateSecrets is
\* waiting for them, and all of them belong to the running cycle.
NoCycleOverlap ==
    /\ mpc \in {"wait", "idle", "cycle", "getret", "list", "exited"}
         => Live(tasks) = {}
    /\ \A t \in Live(tasks) : t.cyc = nCycles
    /\ \A t \in tasks, u \in tasks :
         (t.pc # "done" /\ u.pc # "done") => t.cyc = u.cyc

SecondCycleFansOutWithTickWaiting ==
    /\ nCycles = 2
    /\ mpc = "join"
    /\ tickPending
    /\ Live(tasks) # {}

CreateErrorSurfaces ==
    \A t \in Done(tasks) :
       t.failed = "create" =>
          /\ t.res = "err"
          /\ t.calls.get = 0
          /\ t.calls.update = 0

\* C7: a Get that returned without error returned a complete credential.
GetReturnsNotReadyOrCredential ==
    mpc \in {"list", "join"} => d # Nil

\* C8: a goroutine that fetched a secret whose payload equals the projected
\* payload issues no update call and leaves the stored object as it is.
UpdateIdempotent ==
    \A t \in tasks :
       (t.fetched # Nil /\ t.fetched.Data = DockerCfg(t.d)) =>
          /\ t.pc = "done"
          /\ t.res = "ok"
          /\ t.calls.update = 0
          /\ t.upd = Nil
          /\ store[t.ns][t.d.Server] = t.fetched

UpToDateSecretSkipped ==
    \E t \in Done(tasks) :
       /\ t.fetched # Nil
       /\ t.fetched.Data = DockerCfg(t.d)
       /\ t.calls.update = 0

\* C9: a goroutine that fetched a secret with another payload issues exactly
\* one update call; the object it hands over is the fetched object with the
\* payload replaced and every other field as fetched.
UpdateKeepsMetadata ==
    \A t \in tasks :
       (t.fetched # Nil /\ t.fetched.Data # DockerCfg(t.d)) =>
          /\ t.calls.create = 1
          /\ t.calls.get = 1
          /\ t.upd # Nil
          /\ t.upd.Data = DockerCfg(t.d)
          /\ t.upd.Name = t.fetched.Name
          /\ t.upd.Namespace = t.fetched.Namespace
          /\ t.upd.Uid = t.fetched.Uid
          /\ t.pc \in {"update", "done"}
          /\ t.calls.update = (IF t.pc = "done" THEN 1 ELSE 0)
          /\ (t.pc = "done" /\ t.failed = "none")
                => store[t.ns][t.fetched.Name] = t.upd

StaleSecretUpdated ==
    \E t \in Done(tasks) :
       /\ t.fetched # Nil
       /\ t.fetched.Data = OldData
       /\ t.fetched.Uid = "u0"
       /\ t.failed = "none"
       /\ t.calls.update = 1
       /\ store[t.ns][t.d.Server].Uid = "u0"
       /\ store[t.ns][t.d.Server].Data = DockerCfg(t.d)

\* C10: no error ends the process: whatever fails, the process is not
\* brought down by it.
NoErrorStopsTheProcess ==
    mpc # "panic"

\* C11: a cycle obtains its d from one Get, before the list and the fan-out,
\* and d does not change afterwards until the next cycle begins; every
\* goroutine of the cycle carries that d whatever Run writes to the slot in
\* the meantime, and every secret a cycle writes carries the payload projected
\* from that d.
OneCredentialPerCycleStep ==
    /\ d' # d => (mpc = "getret" \/ mpc' = "cycle")
    /\ \A t \in tasks' : t.cyc = nCycles' => t.d = d'
    /\ \A t \in tasks : \A u \in tasks' :
          (u.idx = t.idx /\ u.cyc = t.cyc) => u.d = t.d
    /\ \A ns \in Cluster : \A name \in SecretNames :
          store'[ns][name] # store[ns][name] =>
             /\ mpc = "join"
             /\ d # Nil
             /\ store'[ns][name] # Nil
             /\ store'[ns][name].Data = DockerCfg(d)

OneCredentialPerCycle == [][OneCredentialPerCycleStep]_vars

\* The slot was replaced or cleared during a fan-out of which one goroutine
\* has written its secret and another is still running.
SlotChangedDuringFanOut ==
    /\ mpc = "join"
    /\ d # Nil
    /\ current # d
    /\ \E t \in Done(tasks) :
          /\ t.cyc = nCycles
          /\ t.failed = "none"
          /\ store[t.ns][d.Server] # Nil
          /\ store[t.ns][d.Server].Data = DockerCfg(d)
    /\ \E t \in Live(tasks) : t.cyc = nCycles /\ t.d = d

CycleFrameStep ==
    /\ \A t \in tasks' :
          /\ t.ns = l'[t.idx]
          /\ t.keys # {} => (t.d # Nil /\ t.keys = {<<t.ns, t.d.Server>>})
          /\ t.fetched # Nil =>
                (t.fetched.Name = t.d.Server /\ t.fetched.Namespace = t.ns)
          /\ t.upd # Nil => (t.upd.Name = t.d.Server /\ t.upd.Namespace = t.ns)
    /\ \A ns \in Cluster : \A name \in SecretNames :
          store'[ns][name] # store[ns][name] =>
             /\ store'[ns][name] # Nil
             /\ d # Nil
             /\ name = d.Server
             /\ \E i \in 1..Len(l) : l[i] = ns
             /\ \E t \in tasks : t.ns = ns /\ t.pc \in {"create", "update"}

CycleFrame == [][CycleFrameStep]_vars

\* A cycle over the selector "a,z" has created, fetched and updated: the
\* secrets with another name and the namespace outside the list are as they
\* were at the start.
OnlyListedKeysTouched ==
    /\ selector # NamespaceAll
    /\ mpc = "idle"
    /\ d # Nil
    /\ \E t \in Done(tasks) : t.calls.update = 1 /\ t.failed = "none"
    /\ \E t \in Done(tasks) : t.calls.create = 1 /\ t.ns \notin Cluster
    /\ store[NsA][d.Server].Data = DockerCfg(d)
    /\ store[NsB][d.Server] = Nil
    /\ \A ns \in Cluster : store[ns][OtherName] = PreExisting(ns, OtherName)

\* C20: main leaves its startup loop only by a Get that found authentication
\* data in the slot, and it is then that the ticker is created and the first
\* cycle begins; as long as main is in the startup loop no cycle has begun,
\* there is no ticker, and no namespace was listed and no secret touched.  A
\* slot that holds data was filled by a successful refresh.
StartupOrderStep ==
    /\ (mpc = "wait" /\ mpc' # "wait") =>
          /\ current # Nil
          /\ lastResult = "ok"
          /\ mpc' = "cycle"
          /\ nCycles' = 1
          /\ ~ticker /\ ticker'
    /\ mpc' = "wait" =>
          /\ mpc = "wait"
          /\ nCycles' = 0
          /\ ~ticker' /\ ~tickPending'
          /\ tasks' = {}
          /\ listCalls' = 0 /\ l' = <<>>
          /\ store' = store
    /\ lastResult' = "none" => (current' = Nil /\ mpc' = "wait")

StartupOrder == [][StartupOrderStep]_vars

\* The first cycle begins, after main had to wait for the credential.
FirstCycleAfterWaiting ==
    /\ mpc = "cycle"
    /\ nCycles = 1
    /\ ticker
    /\ now >= 1
    /\ current # Nil
    /\ tasks = {}
    /\ store \in InitStores

\* C19: when buildNamespacesList returned an error the cycle has returned to
\* main's select with no goroutine spawned, hence no create, get or update
\* call issued, and the process is alive: a waiting tick can start the next
\* cycle.  Every cycle begins with no list, and a cycle that fans out over
\* the namespaces of the cluster has issued its own List call.
ListFailureAbortsCycleStep ==
    /\ listErr' =>
          /\ mpc' \in {"idle", "exited"}
          /\ l' = <<>>
          /\ listCalls' = 1
          /\ tasks' = {}
          /\ store' = store
    /\ (listErr /\ mpc = "idle" /\ tickPending /\ nCycles < MaxCycles)
          => ENABLED IdleTick
    /\ mpc' = "cycle" => (l' = <<>> /\ listCalls' = 0 /\ ~listErr')
    /\ (mpc' = "join" /\ selector = NamespaceAll) =>
          (listCalls' = 1 /\ l' = ListedNames)

ListFailureAbortsCycle == [][ListFailureAbortsCycleStep]_vars

\* The first cycle listed the namespaces and wrote a secret; the second cycle
\* listed again, and its List call failed.
ListFailedInSecondCycle ==
    /\ nCycles = 2
    /\ mpc = "idle"
    /\ listErr
    /\ listCalls = 1
    /\ tasks = {}
    /\ store \notin InitStores

RECURSIVE JoinWith(_, _)
\* The strings of parts, in order, with sep between each two
JoinWith(parts, sep) ==
    IF Len(parts) = 0 THEN <<>>
    ELSE IF Len(parts) = 1 THEN parts[1]
    ELSE parts[1] \o sep \o JoinWith(Tail(parts), sep)

\* C15: for a selector other than the "all" value buildNamespacesList returns,
\* without a List call and without error, the parts of the selector between
\* its commas: one more part than there are commas, no part holding a comma,
\* and the parts joined by commas give the selector back character for
\* character; for the "all" value it issues one List call.
ListTargetsVerbatim ==
    obs.list # Nil =>
       IF selector # NamespaceAll
       THEN /\ obs.list.calls = 0
            /\ ~obs.list.err
            /\ Len(obs.list.names) =
                  1 + Cardinality({i \in 1..Len(selector) : selector[i] = ","})
            /\ \A i \in 1..Len(obs.list.names) :
                  \A j \in 1..Len(obs.list.names[i]) :
                     obs.list.names[i][j] # ","
            /\ JoinWith(obs.list.names, <<",">>) = selector
       ELSE /\ obs.list.calls = 1
            /\ obs.list.err \/ obs.list.names = ListedNames

\* The selector " a,a" gives " a" and "a", with no List call.
SelectorSplitVerbatim ==
    /\ selector = <<" ", "a", ",", "a">>
    /\ obs.list # Nil
    /\ obs.list.names = << <<" ", "a">>, <<"a">> >>
    /\ obs.list.calls = 0

\* C12: when the last answer of the Token Source carried no error and a
\* number of records other than one, refresh() failed on the count, and the
\* slot is empty whatever it held before.
WrongRecordCountFails ==
    ( /\ obs.answer # Nil
      /\ ~obs.answer.err
      /\ Len(obs.answer.AuthorizationData) # 1 )
    => /\ obs.outcome = "count"
       /\ lastResult = "err"
       /\ current = Nil

\* Two records were returned while a credential was held: the slot is empty.
TwoRecordsClearedTheSlot ==
    /\ obs.answer # Nil
    /\ ~obs.answer.err
    /\ Len(obs.answer.AuthorizationData) = 2
    /\ obs.before # Nil
    /\ current = Nil

\* C13: when the last answer carried exactly one record whose token decodes,
\* refresh() succeeded if and only if the decoded value holds exactly one
\* ':'; the slot then holds as Username what precedes the colon and as
\* Password what follows it; with no colon or more than one, refresh() failed
\* as malformed and the slot is empty.  A token that does not decode fails
\* too.
TokenSplitsInTwo ==
    ( /\ obs.answer # Nil
      /\ ~obs.answer.err
      /\ Len(obs.answer.AuthorizationData) = 1 )
    => LET v == B64Decode(obs.answer.AuthorizationData[1].AuthorizationToken)
       IN  IF v = Nil
           THEN obs.outcome = "decode" /\ current = Nil
           ELSE LET colons == {i \in 1..Len(v) : v[i] = ":"}
                IN  IF Cardinality(colons) = 1
                    THEN LET k == CHOOSE i \in colons : TRUE
                         IN  /\ obs.outcome = "ok"
                             /\ lastResult = "ok"
                             /\ current # Nil
                             /\ current.Username = SubSeq(v, 1, k - 1)
                             /\ current.Password = SubSeq(v, k + 1, Len(v))
                    ELSE /\ obs.outcome = "malformed"
                         /\ lastResult = "err"
                         /\ current = Nil

\* The token "A:s:t", whose password would hold a colon, was refused while a
\* credential was held.
ColonInPasswordRefused ==
    /\ obs.answer # Nil
    /\ ~obs.answer.err
    /\ Len(obs.answer.AuthorizationData) = 1
    /\ obs.answer.AuthorizationData[1].AuthorizationToken
          = <<"QQ", "Og", "cw", "Og", "dA">>
    /\ obs.outcome = "malformed"
    /\ obs.before # Nil
    /\ current = Nil

\* C16: while Run sleeps, the instant it sleeps until is one minute before
\* the ExpiresAt of the record when the last answer gave a credential, and
\* one minute after the answer was handled when it did not; the next call is
\* issued not before that instant and at that instant, or at once when the
\* instant had passed as the answer was handled.  Calls and handled answers
\* alternate, and the slot and the result change only as an answer is handled.
RefreshScheduleStep ==
    /\ rpc' = "sleep" =>
          IF obs'.outcome = "ok"
          THEN /\ current'.expiration = obs'.answer.AuthorizationData[1].ExpiresAt
               /\ wakeAt' = current'.expiration - 1
          ELSE wakeAt' = obs'.retAt + 1
    /\ (rpc = "sleep" /\ rpc' = "inflight") =>
          /\ now >= wakeAt
          /\ now = (IF wakeAt >= obs.retAt THEN wakeAt ELSE obs.retAt)
          /\ obs'.calls = obs.calls + 1
    /\ obs'.calls = obs'.rets + (IF rpc' = "inflight" THEN 1 ELSE 0)
    /\ (current' # current \/ lastResult' # lastResult \/ wakeAt' # wakeAt)
          => (rpc = "inflight" /\ obs'.rets = obs.rets + 1)

RefreshSchedule == [][RefreshScheduleStep]_vars

\* The second call is in flight: it was issued a minute after the first
\* answer, which gave a credential expiring a minute from now.
SecondCallAtMargin ==
    /\ rpc = "inflight"
    /\ obs.calls = 2
    /\ obs.outcome = "ok"
    /\ obs.retAt = 0
    /\ now = 1
    /\ current # Nil
    /\ current.expiration = 2

\* C14: once a stop signal is waiting in c, main returns at last; and main
\* has returned only with every goroutine of the cycles done.
SignalStopsDriver ==
    /\ sigPending ~> (mpc = "exited")
    /\ [](mpc = "exited" => Live(tasks) = {})

\* C21: a goroutine whose Get failed after Create reported "already exists"
\* has ended with one create call, one get call and no update call, and its
\* error was returned and logged; a goroutine whose Update failed has ended
\* with one call of each kind and its error returned.  The step in which the
\* call fails leaves the store as it was, and a goroutine that has ended
\* makes no further call: it stays as it ended until the next cycle begins.
UpdatePathFailureStep ==
    /\ \A t \in tasks' :
          /\ t.failed = "get" =>
                /\ t.pc = "done"
                /\ t.res = "err"
                /\ t.calls = [create |-> 1, get |-> 1, update |-> 0]
                /\ t.fetched = Nil
                /\ t.upd = Nil
          /\ t.failed = "update" =>
                /\ t.pc = "done"
                /\ t.res = "err"
                /\ t.calls = [create |-> 1, get |-> 1, update |-> 1]
                /\ store'[t.ns][t.d.Server] = t.fetched
                /\ t.fetched.Data # DockerCfg(t.d)
          /\ (t.failed \in {"get", "update"} /\ t \notin tasks) => store' = store
    /\ \A t \in tasks :
          t.pc = "done" => (t \in tasks' \/ mpc' = "cycle")

UpdatePathFailure == [][UpdatePathFailureStep]_vars

\* A cycle has returned in which the Get of one namespace failed and the
\* Update of the other failed.
GetAndUpdateFailed ==
    /\ mpc = "idle"
    /\ \E t \in Done(tasks) :
          /\ t.failed = "get" /\ t.res = "err" /\ t.calls.update = 0
          /\ store[t.ns][t.d.Server] # Nil
          /\ store[t.ns][t.d.Server].Data # DockerCfg(t.d)
    /\ \E t \in Done(tasks) :
          /\ t.failed = "update" /\ t.res = "err"
          /\ store[t.ns][t.d.Server].Data # DockerCfg(t.d)

=============================================================================
